---- MODULE Spec2Model ----
(***************************************************************************)
(* A model of the tpntree crate: the N-dimensional region tree TpnTree     *)
(* (src/src/tpntree/mod.rs), its coordinate-indexed insert and find        *)
(* (src/src/tpntree/spatial.rs), the depth first and breadth first         *)
(* iterators (src/src/iterators.rs) and the variant whose dimension is a   *)
(* run-time value (src/src/tpntree_dynamic/mod.rs).                        *)
(*                                                                         *)
(* Spec is the caller of SpatialTree<[f64; N], N>, VecSpec the caller of   *)
(* SpatialTree<Vec<f64>, N>, WalkSpec the caller of the plain TpnTree and  *)
(* its iterators, DynSpec the two variants side by side.                   *)
(*                                                                         *)
(* A tree is a nested record, as in the source a node owns its children:   *)
(*   [coordinates, span, level, children, data]                            *)
(* coordinates and span are sequences of length N (axis i of the source is *)
(* index i+1 here), children is a sequence of nodes (child k of the source *)
(* is index k+1), data is an Option: <<>> is None and <<v>> is Some(v).    *)
(*                                                                         *)
(* f64 values are dyadic rationals written as integers in units of         *)
(* 1/Unit, Unit = 2^MaxLevel. A span is halved once per level and no node  *)
(* is divided below level MaxLevel, so every span that is halved is even   *)
(* and the integer quotient is the exact quotient the f64 division gives.  *)
(***************************************************************************)
EXTENDS Integers, Sequences, FiniteSets, Bags, TLC

VARIABLES
    dim,          \* the const generic N of TpnTree<T, N>
    tree,         \* the tree the caller owns
    op,           \* the last call: [name, path, data, cond]
    result,       \* what that call returned: [res, found]
    user_divided, \* history: divide() was called by the caller and returned Ok
    inserted,     \* history: the bag of the items whose insert returned Ok
    iterator,     \* the traversal the caller holds: [kind, pending, yielded]
    dyn           \* the tree of the runtime-dimension variant, an Option

vars == <<dim, tree, op, result, user_divided, inserted, iterator, dyn>>

----------------------------------------------------------------------------
(* Bounds of the model.                                                    *)

\* No node at this level or deeper is divided.
MaxLevel == 2
\* The caller stops inserting and dividing once the items the tree holds and
\* its internal nodes are this many together.
MaxSize == 2

\* The dimensions N the model is run for.
Dims == {1, 2, 3}

\* The integer that stands for the f64 1.0.
Unit == 2 ^ MaxLevel

----------------------------------------------------------------------------
(* Option<T>                                                               *)

None == <<>>
Some(v) == <<v>>
is_some(o) == Len(o) = 1
unwrap_or_default(o) == IF is_some(o) THEN o[1] ELSE <<>>

----------------------------------------------------------------------------
(* bitvec: a BitVec is a sequence of 0/1, bit i of the source at index i+1 *)

\* bitvec![0; n]
bitvec_zeros(n) == [i \in 1..n |-> 0]
\* BitSlice::any
bv_any(bv) == \E i \in 1..Len(bv) : bv[i] = 1
\* a & b, a ^ b
bv_and(a, b) == [i \in 1..Len(a) |-> IF a[i] = 1 /\ b[i] = 1 THEN 1 ELSE 0]
bv_xor(a, b) == [i \in 1..Len(a) |-> IF a[i] # b[i] THEN 1 ELSE 0]
\* BitVec::set(index, value), index counted from 0
bv_set(bv, index, value) == [bv EXCEPT ![index + 1] = value]
\* BitVec::push and BitVec::pop
bv_push(bv, value) == Append(bv, value)
bv_pop(bv) == SubSeq(bv, 1, Len(bv) - 1)
\* Mutant of bv_shift_right: the bits move towards index 0 instead.
bv_shift_towards_zero(bv, by) ==
    [i \in 1..Len(bv) |-> IF i + by > Len(bv) THEN 0 ELSE bv[i + by]]

\* BitSlice::shift_right(by): every bit moves by places away from index 0,
\* the first by places are cleared, the last by bits are lost.
bv_shift_right(bv, by) ==
    [i \in 1..Len(bv) |-> IF i <= by THEN 0 ELSE bv[i - by]]

----------------------------------------------------------------------------
(* TpnTree                                                                 *)

new(coordinates, span, level) ==
    [coordinates |-> coordinates,
     span        |-> span,
     level       |-> level,
     children    |-> <<>>,
     data        |-> None]

root(span, n) == new([i \in 1..n |-> 0], [i \in 1..n |-> span], 0)

is_leaf(self) == self.children = <<>>
is_root(self) == self.level = 0
child_count(self) == Len(self.children)
\* get_child(index): Some(child) or None, index counted from 0
get_child(self, index) ==
    IF index + 1 \in 1..Len(self.children)
    THEN Some(self.children[index + 1]) ELSE None

\* The while loop of divide that "adds one" to the pattern: lines 120-129.
RECURSIVE add_one_loop(_, _)
add_one_loop(pattern, one) ==
    IF bv_any(one)
    THEN LET carry    == bv_and(pattern, one)
             pattern2 == bv_xor(pattern, one)
             one2     == bv_pop(bv_shift_right(bv_push(carry, 0), 1))
         IN  add_one_loop(pattern2, one2)
    ELSE pattern

\* Mutant of add_one: bit 0 is flipped and the carry is dropped.
add_one_no_carry(pattern) ==
    bv_xor(pattern, bv_set(bitvec_zeros(Len(pattern)), 0, 1))

\* Lines 114-129: carry and one are set up, then the loop runs.
add_one(pattern) ==
    LET carry == bitvec_zeros(Len(pattern))
        one   == bv_set(carry, 0, 1)
    IN  add_one_loop(pattern, one)

\* Mutant of child_for_pattern: the child keeps the parent's span.
child_with_parent_span(self, pattern) ==
    LET n    == Len(self.coordinates)
        half == [i \in 1..n |-> self.span[i] \div 2]
        coordinates ==
            [i \in 1..n |->
                self.coordinates[i] + (half[i] - self.span[i] * pattern[i])]
    IN  new(coordinates, self.span, self.level + 1)

\* The child divide builds for one pattern: lines 104-112.
child_for_pattern(self, pattern) ==
    LET n    == Len(self.coordinates)
        span == [i \in 1..n |-> self.span[i] \div 2]
        coordinates ==
            [i \in 1..n |->
                self.coordinates[i] + (span[i] - self.span[i] * pattern[i])]
    IN  new(coordinates, span, self.level + 1)

\* The for loop of divide, `remaining` iterations to go: lines 103-130.
RECURSIVE divide_loop(_, _, _, _)

\* Mutant of divide_loop: the loop ends one iteration early.
divide_loop_one_short(self, remaining, pattern, children) ==
    IF remaining = 1
    THEN children
    ELSE divide_loop(self, remaining - 1, add_one(pattern),
                     Append(children, child_for_pattern(self, pattern)))

divide_loop(self, remaining, pattern, children) ==
    IF remaining = 0
    THEN children
    ELSE divide_loop(self, remaining - 1, add_one(pattern),
                     Append(children, child_for_pattern(self, pattern)))

\* Mutant of divide: the node is divided again whether it is a leaf or not.
divide_unchecked(self) ==
    LET n == Len(self.coordinates)
        children == divide_loop(self, 2 ^ n, bitvec_zeros(n), <<>>)
    IN  [tree |-> [self EXCEPT !.children = children], res |-> "Ok"]

\* Mutant of divide: the payload of the divided node is cleared.
divide_clears_data(self) ==
    IF is_leaf(self)
    THEN LET n == Len(self.coordinates)
             children == divide_loop(self, 2 ^ n, bitvec_zeros(n), <<>>)
         IN  [tree |-> [self EXCEPT !.children = children, !.data = None],
              res  |-> "Ok"]
    ELSE [tree |-> self, res |-> "CanNotDivide"]

\* divide(&mut self): the node afterwards and the Result.
divide(self) ==
    IF is_leaf(self)
    THEN LET n == Len(self.coordinates)
             children == divide_loop(self, 2 ^ n, bitvec_zeros(n), <<>>)
         IN  [tree |-> [self EXCEPT !.children = children], res |-> "Ok"]
    ELSE [tree |-> self, res |-> "CanNotDivide"]

----------------------------------------------------------------------------
(* SpatialTree<T, N> = TpnTree<Vec<T>, N>, T = [f64; N] or Vec<f64>         *)

\* Coordinates::coordinates for [f64; N] and, when its assertion holds, for
\* Vec<f64>: the sequence itself.
data_coordinates(data) == data

\* Coordinates::coordinates for Vec<f64> panics: the assert_eq!(self.len(), N)
\* fails. An array [f64; N] has length N and never does.
coordinates_panics(self, data) == Len(data) # Len(self.coordinates)

\* Mutant of spans: the upper face of the region is left out.
spans_below_upper_face(self, data) ==
    \A dimension \in 1..Len(self.coordinates) :
        /\ data_coordinates(data)[dimension]
              < self.coordinates[dimension] + self.span[dimension]
        /\ data_coordinates(data)[dimension]
              >= self.coordinates[dimension] - self.span[dimension]

\* spans(&self, data)
spans(self, data) ==
    \A dimension \in 1..Len(self.coordinates) :
        /\ data_coordinates(data)[dimension]
              <= self.coordinates[dimension] + self.span[dimension]
        /\ data_coordinates(data)[dimension]
              >= self.coordinates[dimension] - self.span[dimension]

\* children.iter().find(|child| child.spans(&data)), and the for loop of
\* find_by_coordinates: the children are tried in order from index k; the
\* index of the first one that spans data, 0 when there is none, -1 when
\* spans panics in data.coordinates().
RECURSIVE first_spanning_from(_, _, _)
first_spanning_from(children, data, k) ==
    IF k > Len(children) THEN 0
    ELSE IF coordinates_panics(children[k], data) THEN -1
    ELSE IF spans(children[k], data) THEN k
    ELSE first_spanning_from(children, data, k + 1)

\* Mutant of first_spanning: child 0 is never tried.
first_spanning_after_first(children, data) ==
    first_spanning_from(children, data, 2)

first_spanning(children, data) == first_spanning_from(children, data, 1)

\* The division conditions the caller passes: |_| false, and two policies
\* that stop at a level: "the node holds a payload" and "always".
division_condition(cond, self) ==
    CASE cond.kind = "never"   -> FALSE
      [] cond.kind = "is_some" -> is_some(self.data) /\ self.level < cond.max_level
      [] cond.kind = "always"  -> self.level < cond.max_level

RECURSIVE insert_by_coordinates(_, _, _)
RECURSIVE insert_into_children(_, _, _)
RECURSIVE insert_drained(_, _, _)

\* Mutant of insert_into_children: the item goes to child 0 whether that
\* child spans it or not.
insert_into_child_zero(self, data, cond) ==
    LET r == insert_by_coordinates(self.children[1], data, cond)
    IN  [tree |-> [self EXCEPT !.children[1] = r.tree], res |-> r.res]

\* Mutant of insert_into_children: every child that is passed over gets an
\* empty Vec as its payload when it has none.
insert_touches_siblings(self, data, cond) ==
    LET k == first_spanning(self.children, data)
    IN  IF k <= 0
        THEN [tree |-> self, res |-> "panic"]
        ELSE LET r == insert_by_coordinates(self.children[k], data, cond)
             IN  [tree |-> [self EXCEPT !.children =
                               [j \in 1..Len(self.children) |->
                                   IF j = k THEN r.tree
                                   ELSE [self.children[j] EXCEPT
                                            !.data = Some(unwrap_or_default(@))]]],
                  res |-> r.res]

\* insert_into_children(&mut self, data, division_condition); the unwrap of
\* a find that found no child panics, as does spans on a Vec of the wrong
\* length.
insert_into_children(self, data, cond) ==
    LET k == first_spanning(self.children, data)
    IN  IF k <= 0
        THEN [tree |-> self, res |-> "panic"]
        ELSE LET r == insert_by_coordinates(self.children[k], data, cond)
             IN  [tree |-> [self EXCEPT !.children[k] = r.tree], res |-> r.res]

\* Mutant of insert_drained: the loop ends after the first item.
insert_drained_first_only(self, items, cond) ==
    IF items = <<>>
    THEN [tree |-> self, res |-> "Ok"]
    ELSE insert_into_children(self, Head(items), cond)

\* The for loop of insert_by_coordinates over the drained items and the new
\* one; `?` leaves the loop at the first item that is not inserted.
insert_drained(self, items, cond) ==
    IF items = <<>>
    THEN [tree |-> self, res |-> "Ok"]
    ELSE LET r == insert_into_children(self, Head(items), cond)
         IN  IF r.res # "Ok" THEN r
             ELSE insert_drained(r.tree, Tail(items), cond)

\* Mutant of insert_by_coordinates: a leaf that is not divided drops the
\* items it holds and keeps the new one alone.
insert_overwrites(self, data, cond) ==
    IF is_root(self) /\ ~spans(self, data)
    THEN [tree |-> self, res |-> "DoesNotSpan"]
    ELSE IF is_leaf(self)
    THEN IF division_condition(cond, self)
         THEN LET d == divide(self)
              IN  IF d.res # "Ok" THEN d
                  ELSE LET items == Append(unwrap_or_default(d.tree.data), data)
                           taken == [d.tree EXCEPT !.data = None]
                       IN  insert_drained(taken, items, cond)
         ELSE [tree |-> [self EXCEPT !.data = Some(<<data>>)], res |-> "Ok"]
    ELSE insert_into_children(self, data, cond)

\* Mutant of insert_by_coordinates: the division condition is asked about a
\* node one level up.
insert_asks_one_level_up(self, data, cond) ==
    IF is_root(self) /\ ~spans(self, data)
    THEN [tree |-> self, res |-> "DoesNotSpan"]
    ELSE IF is_leaf(self)
    THEN IF division_condition(cond, [self EXCEPT !.level = @ - 1])
         THEN LET d == divide(self)
              IN  IF d.res # "Ok" THEN d
                  ELSE LET items == Append(unwrap_or_default(d.tree.data), data)
                           taken == [d.tree EXCEPT !.data = None]
                       IN  insert_drained(taken, items, cond)
         ELSE [tree |-> [self EXCEPT
                            !.data = Some(Append(unwrap_or_default(@), data))],
               res  |-> "Ok"]
    ELSE insert_into_children(self, data, cond)

\* Mutant of insert_by_coordinates: an internal node gives up its children
\* and keeps the item itself.
insert_merges_back(self, data, cond) ==
    IF is_root(self) /\ ~spans(self, data)
    THEN [tree |-> self, res |-> "DoesNotSpan"]
    ELSE IF is_leaf(self)
    THEN IF division_condition(cond, self)
         THEN LET d == divide(self)
              IN  IF d.res # "Ok" THEN d
                  ELSE LET items == Append(unwrap_or_default(d.tree.data), data)
                           taken == [d.tree EXCEPT !.data = None]
                       IN  insert_drained(taken, items, cond)
         ELSE [tree |-> [self EXCEPT
                            !.data = Some(Append(unwrap_or_default(@), data))],
               res  |-> "Ok"]
    ELSE [tree |-> [self EXCEPT !.children = <<>>, !.data = Some(<<data>>)],
          res  |-> "Ok"]

\* Mutant of insert_by_coordinates: the span of the data is checked on a leaf
\* instead of on a root.
insert_checks_leaf(self, data, cond) ==
    IF is_leaf(self) /\ ~spans(self, data)
    THEN [tree |-> self, res |-> "DoesNotSpan"]
    ELSE IF is_leaf(self)
    THEN IF division_condition(cond, self)
         THEN LET d == divide(self)
              IN  IF d.res # "Ok" THEN d
                  ELSE LET items == Append(unwrap_or_default(d.tree.data), data)
                           taken == [d.tree EXCEPT !.data = None]
                       IN  insert_drained(taken, items, cond)
         ELSE [tree |-> [self EXCEPT
                            !.data = Some(Append(unwrap_or_default(@), data))],
               res  |-> "Ok"]
    ELSE insert_into_children(self, data, cond)

\* insert_by_coordinates(&mut self, data, division_condition)
insert_by_coordinates(self, data, cond) ==
    IF is_root(self) /\ coordinates_panics(self, data)
    THEN [tree |-> self, res |-> "panic"]
    ELSE IF is_root(self) /\ ~spans(self, data)
    THEN [tree |-> self, res |-> "DoesNotSpan"]
    ELSE IF is_leaf(self)
    THEN IF division_condition(cond, self)
         THEN LET d == divide(self)
              IN  IF d.res # "Ok" THEN d
                  ELSE LET items == Append(unwrap_or_default(d.tree.data), data)
                           taken == [d.tree EXCEPT !.data = None]
                       IN  insert_drained(taken, items, cond)
         ELSE [tree |-> [self EXCEPT
                            !.data = Some(Append(unwrap_or_default(@), data))],
               res  |-> "Ok"]
    ELSE insert_into_children(self, data, cond)

\* Mutant of find_by_coordinates: child 0 is followed whether it spans the
\* data or not.
RECURSIVE find_in_first_child(_, _)
find_in_first_child(self, data) ==
    IF is_root(self) /\ ~spans(self, data)
    THEN [res |-> "DoesNotSpan", found |-> <<>>]
    ELSE IF is_leaf(self)
    THEN [res |-> "Ok", found |-> <<>>]
    ELSE LET r == find_in_first_child(self.children[1], data)
         IN  [res |-> r.res, found |-> <<1>> \o r.found]

\* Mutant of find_by_coordinates: among the children that span the data the
\* last one is followed, not the first.
RECURSIVE find_last_spanning(_, _)
find_last_spanning(self, data) ==
    IF is_root(self) /\ ~spans(self, data)
    THEN [res |-> "DoesNotSpan", found |-> <<>>]
    ELSE LET hits == {k \in 1..Len(self.children) : spans(self.children[k], data)}
         IN  IF hits = {}
             THEN [res |-> "Ok", found |-> <<>>]
             ELSE LET k == CHOOSE j \in hits : \A h \in hits : h <= j
                      r == find_last_spanning(self.children[k], data)
                  IN  [res |-> r.res, found |-> <<k>> \o r.found]

\* find_by_coordinates(&self, data): the Result and, for Ok, the node found,
\* given as its path from self.
RECURSIVE find_by_coordinates(_, _)
find_by_coordinates(self, data) ==
    IF is_root(self) /\ coordinates_panics(self, data)
    THEN [res |-> "panic", found |-> <<>>]
    ELSE IF is_root(self) /\ ~spans(self, data)
    THEN [res |-> "DoesNotSpan", found |-> <<>>]
    ELSE LET k == first_spanning(self.children, data)
         IN  IF k = -1
             THEN [res |-> "panic", found |-> <<>>]
             ELSE IF k = 0
             THEN [res |-> "Ok", found |-> <<>>]
             ELSE LET r == find_by_coordinates(self.children[k], data)
                  IN  [res |-> r.res, found |-> <<k>> \o r.found]

----------------------------------------------------------------------------
(* Walking a tree                                                          *)

\* The paths of the nodes of t; <<>> is t itself.
RECURSIVE Paths(_)
Paths(t) ==
    {<<>>} \cup UNION {{<<k>> \o p : p \in Paths(t.children[k])} :
                          k \in 1..Len(t.children)}

RECURSIVE NodeAt(_, _)
NodeAt(t, path) ==
    IF path = <<>> THEN t ELSE NodeAt(t.children[Head(path)], Tail(path))

\* t with the node at path replaced: what a call through get_child_mut does.
RECURSIVE ReplaceAt(_, _, _)
ReplaceAt(t, path, node) ==
    IF path = <<>> THEN node
    ELSE [t EXCEPT !.children[Head(path)] = ReplaceAt(@, Tail(path), node)]

Nodes(t) == {NodeAt(t, p) : p \in Paths(t)}

RECURSIVE ItemCount(_)
ItemCount(t) ==
    LET own == Len(unwrap_or_default(t.data))
        RECURSIVE Sum(_)
        Sum(k) == IF k = 0 THEN 0 ELSE ItemCount(t.children[k]) + Sum(k - 1)
    IN  own + Sum(Len(t.children))

RECURSIVE InternalCount(_)
InternalCount(t) ==
    LET RECURSIVE Sum(_)
        Sum(k) == IF k = 0 THEN 0 ELSE InternalCount(t.children[k]) + Sum(k - 1)
    IN  IF is_leaf(t) THEN 0 ELSE 1 + Sum(Len(t.children))

Size(t) == ItemCount(t) + InternalCount(t)

----------------------------------------------------------------------------
(* The inputs of the calls                                                 *)

\* The items the caller inserts and looks up, for a root of span 1.0: two
\* opposite corners, the centre (on every face the children share), the
\* centre of a child's edge along axis 0, and a point outside along the first
\* and along the last axis.
Points(n) ==
    {[i \in 1..n |-> v] : v \in {-Unit, 0, Unit}}
    \cup {[i \in 1..n |-> IF i = 1 THEN Unit \div 2 ELSE 0],
          [i \in 1..n |-> IF i = 1 THEN 2 * Unit ELSE 0],
          [i \in 1..n |-> IF i = n THEN 2 * Unit ELSE 0]}

Conds ==
    {[kind |-> "never", max_level |-> 0],
     [kind |-> "always", max_level |-> MaxLevel]}
    \cup [kind : {"is_some"}, max_level : 1..MaxLevel]

\* The arguments of new(coordinates, span, level) the model starts from: a
\* node that is no root, off centre, with a span that differs per axis; and a
\* root whose span is 0 along axis 0.
NewArgs(n) ==
    { [coordinates |-> [i \in 1..n |-> IF i = 1 THEN Unit ELSE 0],
       span        |-> [i \in 1..n |-> IF i = 1 THEN 2 * Unit ELSE Unit],
       level       |-> 1],
      [coordinates |-> [i \in 1..n |-> 0],
       span        |-> [i \in 1..n |-> IF i = 1 THEN 0 ELSE Unit],
       level       |-> 0] }

NoData == <<>>
NoCond == [kind |-> "never", max_level |-> 0]
\* The caller holds no iterator.
NoIterator == [kind |-> "none", pending |-> <<>>, yielded |-> <<>>]

----------------------------------------------------------------------------
(* The state machine                                                       *)

Init ==
    /\ dim \in Dims
    /\ \/ /\ tree = root(Unit, dim)
          /\ op = [name |-> "root", path |-> <<>>, data |-> NoData, cond |-> NoCond]
       \/ /\ \E a \in NewArgs(dim) : tree = new(a.coordinates, a.span, a.level)
          /\ op = [name |-> "new", path |-> <<>>, data |-> NoData, cond |-> NoCond]
    /\ result = [res |-> "Ok", found |-> <<>>]
    /\ user_divided = FALSE
    /\ inserted = EmptyBag
    /\ iterator = NoIterator
    /\ dyn = None

\* A panic ends the program.
Running == result.res # "panic"

\* node.divide() on the node at path.
Divide(path) ==
    /\ Running
    /\ LET self == NodeAt(tree, path)
           r    == divide(self)
       IN  /\ tree' = ReplaceAt(tree, path, r.tree)
           /\ result' = [res |-> r.res, found |-> <<>>]
           /\ user_divided' = (user_divided \/ r.res = "Ok")
    /\ op' = [name |-> "divide", path |-> path, data |-> NoData, cond |-> NoCond]
    /\ UNCHANGED <<dim, inserted, iterator, dyn>>

\* tree.insert_by_coordinates(data, cond). A call on an inner node is this
\* call on a tree whose top node has a level above 0, as new() builds.
Insert(data, cond) ==
    /\ Running
    /\ LET r == insert_by_coordinates(tree, data, cond)
       IN  /\ tree' = r.tree
           /\ result' = [res |-> r.res, found |-> <<>>]
           /\ inserted' = IF r.res = "Ok"
                           THEN inserted (+) SetToBag({data})
                           ELSE inserted
    /\ op' = [name |-> "insert_by_coordinates", path |-> <<>>,
              data |-> data, cond |-> cond]
    /\ UNCHANGED <<dim, user_divided, iterator, dyn>>

\* tree.find_by_coordinates(&data)
Find(data) ==
    /\ Running
    /\ result' = find_by_coordinates(tree, data)
    /\ op' = [name |-> "find_by_coordinates", path |-> <<>>,
              data |-> data, cond |-> NoCond]
    /\ UNCHANGED <<dim, tree, user_divided, inserted, iterator, dyn>>

\* The bounds: the caller mutates the tree while it is small, and divides no
\* leaf at level MaxLevel.
MayGrow == Size(tree) < MaxSize

DividePaths ==
    LET grow == MayGrow
    IN  {path \in Paths(tree) :
            LET self == NodeAt(tree, path)
            IN  is_leaf(self) => (grow /\ self.level < MaxLevel)}

Next ==
    \/ \E path \in DividePaths : Divide(path)
    \/ /\ MayGrow
       /\ \E data \in Points(dim), cond \in Conds : Insert(data, cond)
    \/ \E data \in Points(dim) : Find(data)

Spec == Init /\ [][Next]_vars

----------------------------------------------------------------------------
(* SpatialTree<Vec<f64>, N>: items whose length is checked at run time      *)

\* The Vec<f64> items the caller passes: two of length N, one a coordinate
\* short and one a coordinate long.
VecPoints(n) ==
    {[i \in 1..n |-> Unit], [i \in 1..n |-> 0],
     [i \in 1..(n - 1) |-> 0], [i \in 1..(n + 1) |-> 0]}

\* tree.spans(&data): data.coordinates() is evaluated first.
Spans(data) ==
    /\ Running
    /\ result' = IF coordinates_panics(tree, data)
                 THEN [res |-> "panic", found |-> <<>>]
                 ELSE [res |-> "Ok", found |-> <<spans(tree, data)>>]
    /\ op' = [name |-> "spans", path |-> <<>>, data |-> data, cond |-> NoCond]
    /\ UNCHANGED <<dim, tree, user_divided, inserted, iterator, dyn>>

VecNext ==
    \/ \E path \in DividePaths : Divide(path)
    \/ /\ MayGrow
       /\ \E data \in VecPoints(dim), cond \in Conds : Insert(data, cond)
    \/ \E data \in VecPoints(dim) : Find(data)
    \/ \E data \in VecPoints(dim) : Spans(data)

VecSpec == Init /\ [][VecNext]_vars

----------------------------------------------------------------------------
(* adjacent_trees and the iterators of TpnTree                             *)

\* The for loop of adjacent_trees from axis i on (counted from 1), the trees
\* pushed so far in adjacent.
RECURSIVE adjacent_trees_loop(_, _, _)
adjacent_trees_loop(self, i, adjacent) ==
    IF i > Len(self.coordinates)
    THEN adjacent
    ELSE LET coordinates_above ==
                 [self.coordinates EXCEPT ![i] = @ + self.span[i] * 2]
             tree_above == new(coordinates_above, self.span, 0)
             coordinates_below ==
                 [self.coordinates EXCEPT ![i] = @ - self.span[i] * 2]
             tree_below == new(coordinates_below, self.span, 0)
         IN  adjacent_trees_loop(self, i + 1,
                                 Append(Append(adjacent, tree_above), tree_below))

\* Mutant of adjacent_trees: the tree below is pushed before the tree above.
adjacent_trees_below_first(self) ==
    LET above_first == adjacent_trees_loop(self, 1, <<>>)
    IN  [k \in 1..Len(above_first) |->
            above_first[IF k % 2 = 1 THEN k + 1 ELSE k - 1]]

\* adjacent_trees(&self)
adjacent_trees(self) == adjacent_trees_loop(self, 1, <<>>)

\* An iterator holds references to nodes of the tree it was made on: a
\* reference is the path of the node. pending is the stack of the depth first
\* iterator and the queue of the breadth first one; yielded is history, the
\* references next() has returned so far.
DepthFirstIterator_new(path) ==
    [kind |-> "depth_first", pending |-> <<path>>, yielded |-> <<>>]

BreadthFirstIterator_new(path) ==
    [kind |-> "breadth_first", pending |-> <<path>>, yielded |-> <<>>]

\* for child in tree.iter_children() { push(child) }: the references to the
\* children of the node at path, in enumeration order.
children_refs(t, path) ==
    [k \in 1..child_count(NodeAt(t, path)) |-> Append(path, k)]

\* Mutant of depth_first_next: the oldest reference is taken, not the newest.
depth_first_takes_oldest(it, t) ==
    IF it.pending = <<>>
    THEN [iterator |-> it, item |-> None]
    ELSE LET path == Head(it.pending)
             rest == Tail(it.pending)
         IN  [iterator |-> [it EXCEPT !.pending = rest \o children_refs(t, path),
                                      !.yielded = Append(@, path)],
              item     |-> Some(path)]

\* DepthFirstIterator::next: stack.pop(), then the children are pushed.
depth_first_next(it, t) ==
    IF it.pending = <<>>
    THEN [iterator |-> it, item |-> None]
    ELSE LET path == it.pending[Len(it.pending)]
             rest == SubSeq(it.pending, 1, Len(it.pending) - 1)
         IN  [iterator |-> [it EXCEPT !.pending = rest \o children_refs(t, path),
                                      !.yielded = Append(@, path)],
              item     |-> Some(path)]

\* Mutant of breadth_first_next: the newest reference is taken, not the oldest.
breadth_first_takes_newest(it, t) ==
    IF it.pending = <<>>
    THEN [iterator |-> it, item |-> None]
    ELSE LET path == it.pending[Len(it.pending)]
             rest == SubSeq(it.pending, 1, Len(it.pending) - 1)
         IN  [iterator |-> [it EXCEPT !.pending = rest \o children_refs(t, path),
                                      !.yielded = Append(@, path)],
              item     |-> Some(path)]

\* BreadthFirstIterator::next: queue.pop_front(), then the children are
\* pushed at the back.
breadth_first_next(it, t) ==
    IF it.pending = <<>>
    THEN [iterator |-> it, item |-> None]
    ELSE LET path == Head(it.pending)
             rest == Tail(it.pending)
         IN  [iterator |-> [it EXCEPT !.pending = rest \o children_refs(t, path),
                                      !.yielded = Append(@, path)],
              item     |-> Some(path)]

\* The payloads the caller writes through data_mut(): none, and one item.
Payloads(n) == {None, Some(<<[i \in 1..n |-> Unit]>>)}

\* *node.data_mut() = value on the leaf at path.
DataMut(path, value) ==
    /\ Running
    /\ iterator = NoIterator
    /\ is_leaf(NodeAt(tree, path))
    /\ tree' = ReplaceAt(tree, path, [NodeAt(tree, path) EXCEPT !.data = value])
    /\ result' = [res |-> "Ok", found |-> <<>>]
    /\ op' = [name |-> "data_mut", path |-> path, data |-> value, cond |-> NoCond]
    /\ UNCHANGED <<dim, user_divided, inserted, iterator, dyn>>

\* node.adjacent_trees() on the node at path.
AdjacentTrees(path) ==
    /\ Running
    /\ iterator = NoIterator
    /\ result' = [res |-> "Ok", found |-> adjacent_trees(NodeAt(tree, path))]
    /\ op' = [name |-> "adjacent_trees", path |-> path,
              data |-> NoData, cond |-> NoCond]
    /\ UNCHANGED <<dim, tree, user_divided, inserted, iterator, dyn>>

\* node.iter_depth_first() and node.iter_breadth_first() on the node at path.
IterDepthFirst(path) ==
    /\ Running
    /\ iterator = NoIterator
    /\ iterator' = DepthFirstIterator_new(path)
    /\ result' = [res |-> "Ok", found |-> <<>>]
    /\ op' = [name |-> "iter_depth_first", path |-> path,
              data |-> NoData, cond |-> NoCond]
    /\ UNCHANGED <<dim, tree, user_divided, inserted, dyn>>

IterBreadthFirst(path) ==
    /\ Running
    /\ iterator = NoIterator
    /\ iterator' = BreadthFirstIterator_new(path)
    /\ result' = [res |-> "Ok", found |-> <<>>]
    /\ op' = [name |-> "iter_breadth_first", path |-> path,
              data |-> NoData, cond |-> NoCond]
    /\ UNCHANGED <<dim, tree, user_divided, inserted, dyn>>

\* iterator.next(): Some(reference) or None; the tree is borrowed, not changed.
IterNext ==
    /\ Running
    /\ iterator.kind \in {"depth_first", "breadth_first"}
    /\ LET r == IF iterator.kind = "depth_first"
               THEN depth_first_next(iterator, tree)
               ELSE breadth_first_next(iterator, tree)
       IN  /\ iterator' = r.iterator
           /\ result' = [res |-> IF is_some(r.item) THEN "Some" ELSE "None",
                         found |-> unwrap_or_default(r.item)]
    /\ op' = [name |-> "next", path |-> <<>>, data |-> NoData, cond |-> NoCond]
    /\ UNCHANGED <<dim, tree, user_divided, inserted, dyn>>

\* The iterator is dropped; the borrow of the tree ends.
IterDrop ==
    /\ Running
    /\ iterator # NoIterator
    /\ iterator' = NoIterator
    /\ result' = [res |-> "Ok", found |-> <<>>]
    /\ op' = [name |-> "drop", path |-> <<>>, data |-> NoData, cond |-> NoCond]
    /\ UNCHANGED <<dim, tree, user_divided, inserted, dyn>>

\* The nodes the caller of the plain TpnTree divides, writes to and starts a
\* traversal from: the tree itself, and the first, second and last child of
\* such a node.
WalkPaths ==
    {path \in Paths(tree) :
        \A i \in 1..Len(path) : path[i] \in {1, 2, 2 ^ dim}}

\* The caller of the plain TpnTree: divide and data_mut while no iterator
\* borrows the tree, adjacent_trees, and traversals.
WalkNext ==
    \/ /\ iterator = NoIterator
       /\ \E path \in DividePaths \cap WalkPaths : Divide(path)
    \/ /\ MayGrow
       /\ \E path \in WalkPaths, value \in Payloads(dim) : DataMut(path, value)
    \/ \E path \in Paths(tree) : AdjacentTrees(path)
    \/ \E path \in WalkPaths : IterDepthFirst(path)
    \/ \E path \in WalkPaths : IterBreadthFirst(path)
    \/ IterNext
    \/ IterDrop

WalkSpec == Init /\ [][WalkNext]_vars

----------------------------------------------------------------------------
(* tpntree_dynamic::TpnTree: coordinates and span are Vec<f64>             *)

\* Mutant of dyn_new: the lengths are not compared.
dyn_new_unchecked(coordinates, span, level) ==
    Some([coordinates |-> coordinates,
          span        |-> span,
          level       |-> level,
          children    |-> <<>>,
          data        |-> None])

\* new(coordinates, span, level): Some(node), or None when the assertion
\* coordinates.len() == span.len() fails and the call panics.
dyn_new(coordinates, span, level) ==
    IF Len(coordinates) = Len(span)
    THEN Some([coordinates |-> coordinates,
               span        |-> span,
               level       |-> level,
               children    |-> <<>>,
               data        |-> None])
    ELSE None

\* root(span, dimensions)
dyn_root(span, dimensions) ==
    dyn_new([i \in 1..dimensions |-> 0], [i \in 1..dimensions |-> span], 0)

\* The pattern increment of divide: lines 113-128.
dyn_add_one(pattern) ==
    LET carry == bitvec_zeros(Len(pattern))
        one   == bv_set(carry, 0, 1)
    IN  add_one_loop(pattern, one)

\* Mutant of dyn_child_for_pattern: the centre moves down for bit 0 and up
\* for bit 1.
dyn_child_mirrored(self, pattern) ==
    LET n    == Len(self.coordinates)
        span == [i \in 1..n |-> self.span[i] \div 2]
        coordinates ==
            [i \in 1..n |->
                self.coordinates[i] - (span[i] - self.span[i] * pattern[i])]
    IN  dyn_new(coordinates, span, self.level + 1)

\* The child divide builds for one pattern: lines 103-111.
dyn_child_for_pattern(self, pattern) ==
    LET n    == Len(self.coordinates)
        span == [i \in 1..n |-> self.span[i] \div 2]
        coordinates ==
            [i \in 1..n |->
                self.coordinates[i] + (span[i] - self.span[i] * pattern[i])]
    IN  dyn_new(coordinates, span, self.level + 1)

\* The for loop of divide, `remaining` iterations to go: lines 102-129. None
\* when a Self::new panics.
RECURSIVE dyn_divide_loop(_, _, _, _)
dyn_divide_loop(self, remaining, pattern, children) ==
    IF remaining = 0
    THEN Some(children)
    ELSE LET child == dyn_child_for_pattern(self, pattern)
         IN  IF child = None THEN None
             ELSE dyn_divide_loop(self, remaining - 1, dyn_add_one(pattern),
                                  Append(children, child[1]))

\* divide(&mut self) -> bool
dyn_divide(self) ==
    IF self.children = <<>>
    THEN LET n == Len(self.coordinates)
             children == dyn_divide_loop(self, 2 ^ n, bitvec_zeros(n), <<>>)
         IN  IF children = None
             THEN [tree |-> self, res |-> "panic"]
             ELSE [tree |-> [self EXCEPT !.children = children[1]],
                   res  |-> "true"]
    ELSE [tree |-> self, res |-> "false"]

\* The for loop of adjacent_trees from axis i on; None when a Self::new
\* panics.
RECURSIVE dyn_adjacent_trees_loop(_, _, _)
dyn_adjacent_trees_loop(self, i, adjacent) ==
    IF i > Len(self.coordinates)
    THEN Some(adjacent)
    ELSE LET coordinates_above ==
                 [self.coordinates EXCEPT ![i] = @ + self.span[i] * 2]
             tree_above == dyn_new(coordinates_above, self.span, 0)
             coordinates_below ==
                 [self.coordinates EXCEPT ![i] = @ - self.span[i] * 2]
             tree_below == dyn_new(coordinates_below, self.span, 0)
         IN  IF tree_above = None \/ tree_below = None THEN None
             ELSE dyn_adjacent_trees_loop(self, i + 1,
                      Append(Append(adjacent, tree_above[1]), tree_below[1]))

\* adjacent_trees(&self)
dyn_adjacent_trees(self) == dyn_adjacent_trees_loop(self, 1, <<>>)

\* The arguments new() is called with for n axes: those of NewArgs, the unit
\* root, and coordinates with a span one shorter and one longer.
DynArgs(n) ==
    NewArgs(n)
    \cup {[coordinates |-> [i \in 1..n |-> 0],
           span        |-> [i \in 1..m |-> Unit],
           level       |-> 0] : m \in {n - 1, n, n + 1}}

\* Both variants are built from the same arguments: dyn by the runtime
\* variant and, where the lengths allow it, tree by TpnTree<T, N>.
DynInit ==
    /\ dim \in Dims
    /\ \E a \in DynArgs(dim) :
          /\ op = [name |-> "new", path |-> <<>>, data |-> a, cond |-> NoCond]
          /\ dyn = dyn_new(a.coordinates, a.span, a.level)
          /\ result = [res   |-> IF dyn = None THEN "panic" ELSE "Ok",
                       found |-> <<>>]
          /\ tree = IF Len(a.span) = dim
                    THEN new(a.coordinates, a.span, a.level)
                    ELSE root(Unit, dim)
    /\ user_divided = FALSE
    /\ inserted = EmptyBag
    /\ iterator = NoIterator

\* node.divide() on the node at path, in both variants; found holds the
\* Result of the fixed variant.
DynDivide(path) ==
    /\ Running
    /\ LET r == dyn_divide(NodeAt(dyn[1], path))
           f == divide(NodeAt(tree, path))
       IN  /\ dyn' = Some(ReplaceAt(dyn[1], path, r.tree))
           /\ tree' = ReplaceAt(tree, path, f.tree)
           /\ result' = [res |-> r.res, found |-> <<f.res>>]
           /\ user_divided' = (user_divided \/ r.res = "true")
    /\ op' = [name |-> "divide", path |-> path, data |-> NoData, cond |-> NoCond]
    /\ UNCHANGED <<dim, inserted, iterator>>

\* node.adjacent_trees() on the node at path of the runtime variant.
DynAdjacentTrees(path) ==
    /\ Running
    /\ LET r == dyn_adjacent_trees(NodeAt(dyn[1], path))
       IN  result' = [res   |-> IF r = None THEN "panic" ELSE "Ok",
                      found |-> unwrap_or_default(r)]
    /\ op' = [name |-> "adjacent_trees", path |-> path,
              data |-> NoData, cond |-> NoCond]
    /\ UNCHANGED <<dim, tree, user_divided, inserted, iterator, dyn>>

DynNext ==
    \/ \E path \in DividePaths : DynDivide(path)
    \/ \E path \in Paths(tree) : DynAdjacentTrees(path)

DynSpec == DynInit /\ [][DynNext]_vars

----------------------------------------------------------------------------
(* Properties                                                              *)

InternalNodes == {n \in Nodes(tree) : ~is_leaf(n)}

\* Bit i of the integer k, bit 0 the least significant.
Bit(k, i) == (k \div (2 ^ i)) % 2

\* The centre the integer counter k gives a child of parent: on axis i the
\* parent's centre moved by +span/2 for bit 0 and by -span/2 for bit 1.
CounterCoordinates(parent, k) ==
    [i \in 1..Len(parent.coordinates) |->
        parent.coordinates[i] + (parent.span[i] \div 2)
            - parent.span[i] * Bit(k, i - 1)]

\* C1: every node has 0 or 2^N children, and every child is one level below
\* its parent and has half the parent's span on every axis.
C1_ChildrenShape ==
    \A parent \in Nodes(tree) :
        /\ child_count(parent) \in {0, 2 ^ dim}
        /\ \A k \in 1..child_count(parent) :
              LET child == parent.children[k]
              IN  /\ child.level = parent.level + 1
                  /\ Len(child.span) = dim
                  /\ \A i \in 1..dim : 2 * child.span[i] = parent.span[i]

\* C1 witness: in dimension 3 an insert has divided a child of a divided node.
C1_Witness ==
    /\ dim = 3
    /\ op.name = "insert_by_coordinates"
    /\ \E path \in Paths(tree) : Len(path) = 2

\* The sign combinations of N axes: bit i is 0 for +span/2 and 1 for -span/2.
SignCombinations == [1..dim -> {0, 1}]

Moved(parent, signs) ==
    [i \in 1..dim |->
        parent.coordinates[i] + (parent.span[i] \div 2)
            - parent.span[i] * signs[i]]

ChildrenOnHalfSpanMoves(parent) ==
    \A k \in 1..child_count(parent) :
        \A i \in 1..dim :
            \/ parent.children[k].coordinates[i]
                  = parent.coordinates[i] + (parent.span[i] \div 2)
            \/ parent.children[k].coordinates[i]
                  = parent.coordinates[i] - (parent.span[i] \div 2)

ChildrenPairwiseDistinct(parent) ==
    \A j, k \in 1..child_count(parent) :
        j # k => parent.children[j].coordinates # parent.children[k].coordinates

EachCombinationOnce(parent) ==
    \A signs \in SignCombinations :
        Cardinality({k \in 1..child_count(parent) :
            parent.children[k].coordinates = Moved(parent, signs)}) = 1

EachCombinationSomewhere(parent) ==
    \A signs \in SignCombinations :
        \E k \in 1..child_count(parent) :
            parent.children[k].coordinates = Moved(parent, signs)

PatternOf(k) == [i \in 1..dim |-> Bit(k, i - 1)]

\* C3: child k of every divided node is the child of the integer counter k,
\* there is no child 2^N, and the pattern increment of divide steps from the
\* pattern of k to the pattern of k+1 (from the last pattern back to 0).
C3_CounterOrder ==
    /\ \A parent \in InternalNodes :
          /\ \A k \in 0..(2 ^ dim - 1) :
                /\ is_some(get_child(parent, k))
                /\ get_child(parent, k)[1].coordinates
                      = CounterCoordinates(parent, k)
          /\ \A k \in (2 ^ dim)..(2 ^ dim + 2) : get_child(parent, k) = None
    /\ \A k \in 0..(2 ^ dim - 1) :
          add_one(PatternOf(k)) = PatternOf((k + 1) % (2 ^ dim))

\* C3 witness: divide() has just divided a leaf in dimension 3, where the
\* increment carries over two bits.
C3_Witness ==
    /\ dim = 3
    /\ op.name = "divide"
    /\ result.res = "Ok"
    /\ child_count(NodeAt(tree, op.path)) = 8

\* C4: divide() on a node that has children returns CanNotDivide and changes
\* nothing in the tree; divide() on a leaf leaves it with all 2^N children.
C4_DivideInternalUnchanged ==
    [][op'.name = "divide" =>
          IF is_leaf(NodeAt(tree, op'.path))
          THEN /\ result'.res = "Ok"
               /\ child_count(NodeAt(tree', op'.path)) = 2 ^ dim
          ELSE /\ result'.res = "CanNotDivide"
               /\ tree' = tree]_vars

\* C4 witness: divide() was called on a node with children, one of which
\* had itself been changed since the division.
C4_Witness ==
    /\ op.name = "divide"
    /\ result.res = "CanNotDivide"
    /\ \E k \in 1..child_count(NodeAt(tree, op.path)) :
          LET child == NodeAt(tree, op.path).children[k]
          IN  ~is_leaf(child) \/ is_some(child.data)

\* The items a node holds itself.
Items(node) == unwrap_or_default(node.data)

\* How often x occurs in the sequence items.
Count(items, x) == Cardinality({i \in 1..Len(items) : items[i] = x})

\* C5: an insert on a root that does not span the data returns DoesNotSpan
\* and changes nothing in the tree, and so does every insert that returns an
\* error.
C5_FailedInsertUnchanged ==
    [][op'.name = "insert_by_coordinates" =>
          /\ (is_root(tree) /\ ~spans(tree, op'.data)) =>
                (result'.res = "DoesNotSpan" /\ tree' = tree)
          /\ result'.res \in {"DoesNotSpan", "CanNotDivide"} => tree' = tree]_vars

\* C5 witness: an insert on a root that has children returned DoesNotSpan,
\* under a condition that is true of every node above level MaxLevel.
C5_Witness ==
    /\ op.name = "insert_by_coordinates"
    /\ result.res = "DoesNotSpan"
    /\ op.cond.kind = "always"
    /\ is_root(tree)
    /\ ~is_leaf(tree)

\* The tree is a root that divide() was never called on by the caller.
InsertsOnly == is_root(tree) /\ ~user_divided

\* C6: on a root changed by inserts alone, every item whose insert returned
\* Ok is found: find returns Ok and a node that holds the item.
C6_InsertedFound ==
    InsertsOnly =>
        \A p \in BagToSet(inserted) :
            LET r == find_by_coordinates(tree, p)
            IN  /\ r.res = "Ok"
                /\ Count(Items(NodeAt(tree, r.found)), p) > 0

\* C6 witness: two different items were inserted, the insert of the second
\* divided the root that held the first (no node below the root is divided,
\* so the division was not that of an empty root under "always"), and a find
\* of an item on the faces the children share found it in a child.
C6_Witness ==
    /\ InsertsOnly
    /\ op.name = "find_by_coordinates"
    /\ result.res = "Ok"
    /\ Len(result.found) = 1
    /\ \A path \in Paths(tree) : Len(path) <= 1
    /\ Cardinality(BagToSet(inserted)) = 2
    /\ op.data \in BagToSet(inserted)
    /\ \A k \in 1..child_count(tree) : spans(tree.children[k], op.data)

\* Where an insert of data on t ends: at a leaf (leaf = TRUE, with its path)
\* or, refused by the root or with no child that spans data, at no leaf.
RECURSIVE InsertReach(_, _)
InsertReach(t, data) ==
    IF is_root(t) /\ ~spans(t, data)
    THEN [leaf |-> FALSE, path |-> <<>>]
    ELSE IF is_leaf(t)
    THEN [leaf |-> TRUE, path |-> <<>>]
    ELSE LET hits == {k \in 1..Len(t.children) : spans(t.children[k], data)}
         IN  IF hits = {}
             THEN [leaf |-> FALSE, path |-> <<>>]
             ELSE LET k == CHOOSE j \in hits : \A h \in hits : j <= h
                      r == InsertReach(t.children[k], data)
                  IN  [leaf |-> r.leaf, path |-> <<k>> \o r.path]

\* How often x occurs in the payloads of the nodes of t.
RECURSIVE CountIn(_, _)
CountIn(t, x) ==
    LET RECURSIVE Sum(_)
        Sum(k) == IF k = 0 THEN 0 ELSE CountIn(t.children[k], x) + Sum(k - 1)
    IN  Count(Items(t), x) + Sum(Len(t.children))

\* x lies in the region of node, faces included.
InClosedRegion(node, x) ==
    \A i \in 1..dim :
        node.coordinates[i] - node.span[i] <= x[i]
            /\ x[i] <= node.coordinates[i] + node.span[i]

\* The index of the first child of parent, in enumeration order, whose closed
\* region holds x; 0 when there is none.
FirstChildHolding(parent, x) ==
    LET hits == {k \in 1..child_count(parent) :
                    InClosedRegion(parent.children[k], x)}
    IN  IF hits = {} THEN 0 ELSE CHOOSE j \in hits : \A h \in hits : j <= h

\* The leaf that the insert of a step reaches is divided, its payload is
\* empty afterwards, and each item it held and the new one is in the subtree
\* of the first child that spans it and of no other child.
DividedAndRedistributed(before, after, data) ==
    LET moved == Append(Items(before), data)
    IN  /\ child_count(after) = 2 ^ dim
        /\ after.data = None
        /\ \A m \in 1..Len(moved) :
              /\ FirstChildHolding(after, moved[m]) # 0
              /\ \A k \in 1..child_count(after) :
                    CountIn(after.children[k], moved[m])
                        = IF k = FirstChildHolding(after, moved[m])
                          THEN Count(moved, moved[m]) ELSE 0

\* C7 as claimed: whenever an insert reaches a leaf on which the condition
\* is true, the leaf is divided and its items and the new one are
\* redistributed, each to the first child that spans it.
C7_Original ==
    [][op'.name = "insert_by_coordinates" =>
          LET reach == InsertReach(tree, op'.data)
          IN  (reach.leaf /\ division_condition(op'.cond, NodeAt(tree, reach.path)))
                  => DividedAndRedistributed(NodeAt(tree, reach.path),
                                             NodeAt(tree', reach.path), op'.data)]_vars

\* C7 for the calls that return: the same, for every insert that returns Ok,
\* as every insert on a root does (C7_NoPanicOnRoot).
C7_WhenOk ==
    [][(op'.name = "insert_by_coordinates" /\ result'.res = "Ok") =>
          LET reach == InsertReach(tree, op'.data)
          IN  (reach.leaf /\ division_condition(op'.cond, NodeAt(tree, reach.path)))
                  => DividedAndRedistributed(NodeAt(tree, reach.path),
                                             NodeAt(tree', reach.path), op'.data)]_vars

C7_NoPanicOnRoot == is_root(tree) => result.res # "panic"

\* An insert on a root divided a leaf that held an item, and an item on the
\* faces the children share went to child 0.
C7_WhenOkWitness ==
    /\ op.name = "insert_by_coordinates"
    /\ result.res = "Ok"
    /\ op.cond.kind = "is_some"
    /\ is_root(tree)
    /\ ~is_leaf(tree)
    /\ ItemCount(tree) = 2
    /\ \A k \in 1..child_count(tree) : spans(tree.children[k], op.data)
    /\ Count(Items(tree.children[1]), op.data) = 1

\* C8: whenever an insert reaches a leaf on which the condition is false, it
\* returns Ok and the tree afterwards is the tree before with the data
\* appended to that leaf's payload; and a leaf root holds exactly the items
\* whose insert returned Ok.
C8_AppendOnly ==
    [][op'.name = "insert_by_coordinates" =>
          LET reach == InsertReach(tree, op'.data)
              leaf  == NodeAt(tree, reach.path)
          IN  /\ (reach.leaf /\ ~division_condition(op'.cond, leaf)) =>
                    /\ result'.res = "Ok"
                    /\ tree' = ReplaceAt(tree, reach.path,
                                  [leaf EXCEPT
                                      !.data = Some(Append(Items(leaf), op'.data))])
              /\ (is_leaf(tree) /\ op'.cond.kind = "never") =>
                    /\ is_leaf(tree')
                    /\ \A p \in Points(dim) :
                          Count(Items(tree'), p)
                              = IF p \in BagToSet(inserted')
                                THEN CopiesIn(p, inserted') ELSE 0]_vars

\* C8 witness: under |_| false a second item was appended to the payload of
\* a leaf root, which is still a leaf.
C8_Witness ==
    /\ op.name = "insert_by_coordinates"
    /\ result.res = "Ok"
    /\ op.cond.kind = "never"
    /\ is_root(tree)
    /\ is_leaf(tree)
    /\ Len(Items(tree)) = 2
    /\ Items(tree)[2] = op.data

\* The node reached from t by moving, as long as there is one, to the first
\* child in enumeration order whose closed region holds x.
RECURSIVE Descent(_, _)
Descent(t, x) ==
    LET k == FirstChildHolding(t, x)
    IN  IF k = 0 THEN <<>> ELSE <<k>> \o Descent(t.children[k], x)

OnAxis(node, j, v) == [node.coordinates EXCEPT ![j] = v]

\* The corners of the region of node.
Corners(node) ==
    {[i \in 1..dim |-> node.coordinates[i] + sign[i] * node.span[i]] :
        sign \in [1..dim -> {-1, 1}]}

\* C10: spans is the closed interval on every axis; two siblings whose
\* regions share a face both span the centre of that face, and every node,
\* the root included, spans the centres of its outer faces and its corners.
C10_SpansClosed ==
    \A node \in Nodes(tree) :
        /\ \A p \in Points(dim) \cup Corners(node) :
              spans(node, p) <=> InClosedRegion(node, p)
        /\ \A j \in 1..dim :
              /\ spans(node, OnAxis(node, j, node.coordinates[j] + node.span[j]))
              /\ spans(node, OnAxis(node, j, node.coordinates[j] - node.span[j]))
        /\ \A p \in Corners(node) : spans(node, p)
        /\ \A a, b \in 1..child_count(node), j \in 1..dim :
              (/\ node.children[a].coordinates[j] # node.children[b].coordinates[j]
               /\ \A i \in 1..dim \ {j} :
                     node.children[a].coordinates[i] = node.children[b].coordinates[i])
              => LET face == OnAxis(node.children[a], j, node.coordinates[j])
                 IN  spans(node.children[a], face) /\ spans(node.children[b], face)

\* C10 witness: a find for the centre of a divided root with a positive span
\* on every axis, which lies on a face of every child, and the root is tried
\* with a point on its outer face.
C10_Witness ==
    /\ op.name = "find_by_coordinates"
    /\ is_root(tree)
    /\ ~is_leaf(tree)
    /\ \A i \in 1..dim : tree.span[i] > 0
    /\ op.data = tree.coordinates
    /\ \A k \in 1..child_count(tree) : spans(tree.children[k], op.data)
    /\ \E p \in Points(dim) :
          /\ spans(tree, p)
          /\ \E i \in 1..dim : p[i] = tree.coordinates[i] + tree.span[i]

\* C11: adjacent_trees on any node returns 2*N nodes, each a leaf without
\* payload at level 0 with the span of self; element 2i is self's centre moved
\* up by 2*span[i] on axis i and element 2i+1 is it moved down by as much; the
\* tree is unchanged.
C11_AdjacentTrees ==
    [][op'.name = "adjacent_trees" =>
          LET self     == NodeAt(tree, op'.path)
              adjacent == result'.found
          IN  /\ tree' = tree
              /\ Len(adjacent) = 2 * dim
              /\ \A i \in 0..(dim - 1) :
                    LET above == adjacent[2 * i + 1]
                        below == adjacent[2 * i + 2]
                    IN  /\ above.children = <<>> /\ below.children = <<>>
                        /\ above.data = None /\ below.data = None
                        /\ above.level = 0 /\ below.level = 0
                        /\ above.span = self.span /\ below.span = self.span
                        /\ \A j \in 1..dim :
                              /\ above.coordinates[j] = self.coordinates[j]
                                    + (IF j = i + 1 THEN 2 * self.span[j] ELSE 0)
                              /\ below.coordinates[j] = self.coordinates[j]
                                    - (IF j = i + 1 THEN 2 * self.span[j] ELSE 0)]_vars

\* C11 witness: adjacent_trees was called on a divided node that is no root
\* and holds a payload, in two dimensions or more.
C11_Witness ==
    /\ op.name = "adjacent_trees"
    /\ dim >= 2
    /\ ~is_root(NodeAt(tree, op.path))
    /\ ~is_leaf(NodeAt(tree, op.path))
    /\ is_some(NodeAt(tree, op.path).data)
    /\ Len(result.found) = 2 * dim
    /\ result.found[1].coordinates # result.found[2].coordinates

\* p is a proper prefix of q: the node at q is a descendant of the node at p.
IsAncestor(p, q) == Len(p) < Len(q) /\ SubSeq(q, 1, Len(p)) = p

\* The paths of the subtree a traversal was started on.
Subtree(start) == {q \in Paths(tree) : q = start \/ IsAncestor(start, q)}

\* The place of path in the sequence seq, 0 when it is not in it.
Position(seq, path) ==
    IF \E i \in 1..Len(seq) : seq[i] = path
    THEN CHOOSE i \in 1..Len(seq) : seq[i] = path
    ELSE 0

\* The traversal so far has yielded nodes of the subtree of its start only,
\* none twice, and has nothing pending exactly when it has yielded them all.
YieldsEachOnce ==
    LET yielded == iterator.yielded
    IN  /\ \A i \in 1..Len(yielded) : yielded[i] \in Subtree(yielded[1])
        /\ \A i, j \in 1..Len(yielded) : yielded[i] = yielded[j] => i = j
        /\ (yielded # <<>> /\ iterator.pending = <<>>)
              <=> (yielded # <<>>
                   /\ Len(yielded) = Cardinality(Subtree(yielded[1])))

\* A next() on a traversal with nothing pending returns None and yields
\* nothing; every other next() returns a node.
EndsWithNone ==
    op'.name = "next" =>
        /\ tree' = tree
        /\ result'.res = "None" <=> iterator.pending = <<>>
        /\ result'.res = "None" => iterator' = iterator
        /\ result'.res = "Some" =>
              /\ iterator'.yielded = Append(iterator.yielded, result'.found)
              /\ Position(iterator.yielded, result'.found) = 0

\* What a depth first traversal has yielded so far: nodes of the subtree,
\* each once, every node after its ancestors and after every later-enumerated
\* sibling and all descendants of that sibling, beginning with the chain of
\* last children.
DepthFirstOrder ==
    iterator.kind = "depth_first" =>
        LET yielded == iterator.yielded
        IN  /\ YieldsEachOnce
            /\ \A i \in 1..Len(yielded) :
                  LET p == yielded[i]
                  IN  /\ \A q \in Paths(tree) :
                            (IsAncestor(q, p) /\ q \in Subtree(yielded[1]))
                                => Position(yielded, q) \in 1..(i - 1)
                      /\ (i > 1) =>
                            \A b \in (p[Len(p)] + 1)..(2 ^ dim) :
                                \A q \in Subtree(Append(SubSeq(p, 1, Len(p) - 1), b)) :
                                    Position(yielded, q) \in 1..(i - 1)
            /\ \A i \in 1..(Len(yielded) - 1) :
                  (/\ Len(yielded[i]) = Len(yielded[1]) + i - 1
                   /\ ~is_leaf(NodeAt(tree, yielded[i])))
                  => yielded[i + 1] = Append(yielded[i], 2 ^ dim)

\* C12: a depth first traversal yields every node of the subtree once and
\* then ends (next() returns None from then on); it starts with the node
\* itself, yields every node before its descendants, and yields a node only
\* after every later-enumerated sibling and all descendants of that sibling;
\* so it begins with the chain of last children.
C12_DepthFirst ==
    [][/\ DepthFirstOrder'
       /\ iterator.kind = "depth_first" => EndsWithNone]_vars

\* C12 witness: a depth first traversal of a root whose first child is
\* divided has ended after 1 + 2 * 2^N nodes.
C12_Witness ==
    /\ iterator.kind = "depth_first"
    /\ op.name = "next"
    /\ result.res = "None"
    /\ dim >= 2
    /\ Len(iterator.yielded) = 1 + 2 * (2 ^ dim)
    /\ iterator.yielded[1] = <<>>
    /\ ~is_leaf(tree.children[1])

\* The parent of the node at a path that is not empty.
Parent(path) == SubSeq(path, 1, Len(path) - 1)

\* What a breadth first traversal has yielded so far: nodes of the subtree,
\* each once, a node only after every node of the subtree that is less deep,
\* the children of one parent in enumeration order, the children of a parent
\* yielded earlier before those of a parent yielded later, beginning with the
\* start and its children 0 .. 2^N-1.
BreadthFirstOrder ==
    iterator.kind = "breadth_first" =>
        LET yielded == iterator.yielded
        IN  /\ YieldsEachOnce
            /\ \A i \in 1..Len(yielded) :
                  /\ \A q \in Subtree(yielded[1]) :
                        Len(q) < Len(yielded[i])
                            => Position(yielded, q) \in 1..(i - 1)
                  /\ \A j \in (i + 1)..Len(yielded) :
                        /\ Len(yielded[i]) <= Len(yielded[j])
                        /\ (i > 1 /\ Parent(yielded[i]) = Parent(yielded[j]))
                              => yielded[i][Len(yielded[i])]
                                    < yielded[j][Len(yielded[j])]
                        /\ (i > 1 /\ Parent(yielded[i]) # Parent(yielded[j]))
                              => Position(yielded, Parent(yielded[i]))
                                    < Position(yielded, Parent(yielded[j]))
            /\ \A k \in 1..(2 ^ dim) :
                  (Len(yielded) >= k + 1 /\ ~is_leaf(NodeAt(tree, yielded[1])))
                      => yielded[k + 1] = Append(yielded[1], k)

\* C13: a breadth first traversal yields every node of the subtree once and
\* then ends (next() returns None from then on), in level order: depth d
\* before depth d+1, the children of a parent in enumeration order, the
\* children of an earlier parent before those of a later one; it begins with
\* the node and its children 0 .. 2^N-1.
C13_BreadthFirst ==
    [][/\ BreadthFirstOrder'
       /\ iterator.kind = "breadth_first" => EndsWithNone]_vars

\* C13 witness: a breadth first traversal of a root whose last child is
\* divided has ended after 1 + 2 * 2^N nodes, the last one a grandchild.
C13_Witness ==
    /\ iterator.kind = "breadth_first"
    /\ op.name = "next"
    /\ result.res = "None"
    /\ dim >= 2
    /\ Len(iterator.yielded) = 1 + 2 * (2 ^ dim)
    /\ iterator.yielded[1] = <<>>
    /\ ~is_leaf(tree.children[2 ^ dim])
    /\ Len(iterator.yielded[Len(iterator.yielded)]) = 2

\* C14 as claimed: no internal node holds a payload.
C14_Original == \A node \in InternalNodes : node.data = None

\* C14 amended: divide() leaves the payload of the node it divides as it
\* was; as long as the caller has not divided a node itself, so that every
\* division was made by insert_by_coordinates, no internal node holds a
\* payload.
C14_Amended ==
    [][/\ (op'.name = "divide" /\ result'.res = "Ok") =>
             /\ ~is_leaf(NodeAt(tree', op'.path))
             /\ NodeAt(tree', op'.path).data = NodeAt(tree, op'.path).data
       /\ ~user_divided' =>
             \A node \in Nodes(tree') : ~is_leaf(node) => node.data = None]_vars

\* C14 witness: divide() has succeeded on a leaf that held a payload, and the
\* node holds it still.
C14_Witness ==
    /\ op.name = "divide"
    /\ result.res = "Ok"
    /\ ~is_leaf(NodeAt(tree, op.path))
    /\ is_some(NodeAt(tree, op.path).data)
    /\ Len(Items(NodeAt(tree, op.path))) = 1

\* C14 witness of the second part: an insert has divided a leaf that held an
\* item, and the node holds no payload.
C14_InsertWitness ==
    /\ op.name = "insert_by_coordinates"
    /\ result.res = "Ok"
    /\ ~user_divided
    /\ ~is_leaf(tree)
    /\ ItemCount(tree) = 2
    /\ tree.data = None

\* C15: a node that is internal is internal after every step: it is still
\* there, it has its 2^N children, and they are the children it had, each with
\* the centre, span and level it had.
C15_DivisionIrreversible ==
    [][\A path \in Paths(tree) :
          ~is_leaf(NodeAt(tree, path)) =>
              /\ path \in Paths(tree')
              /\ ~is_leaf(NodeAt(tree', path))
              /\ child_count(NodeAt(tree', path)) = 2 ^ dim
              /\ \A k \in 1..(2 ^ dim) :
                    LET before == NodeAt(tree, path).children[k]
                        after  == NodeAt(tree', path).children[k]
                    IN  /\ after.coordinates = before.coordinates
                        /\ after.span = before.span
                        /\ after.level = before.level]_vars

\* C15 witness: an insert has gone through a root that the caller divided
\* before, and a child of the root is divided too.
C15_Witness ==
    /\ op.name = "insert_by_coordinates"
    /\ result.res = "Ok"
    /\ user_divided
    /\ ~is_leaf(tree)
    /\ \E k \in 1..child_count(tree) : ~is_leaf(tree.children[k])

\* The call of a step was given an item with more or fewer coordinates than
\* the tree has axes.
WrongLength ==
    /\ op'.name \in {"spans", "insert_by_coordinates", "find_by_coordinates"}
    /\ Len(op'.data) # dim

\* C16 as claimed: spans, insert and find given an item of the wrong length
\* end in a precondition failure or DimensionMismatch and leave the tree
\* unchanged.
C16_Original ==
    [][WrongLength =>
          /\ result'.res \in {"panic", "DimensionMismatch"}
          /\ tree' = tree]_vars

\* C16 on a root, and for spans on any node: the assertion of
\* Vec::coordinates fails before anything is evaluated or changed.
C16_OnRoot ==
    [][(WrongLength /\ (is_root(tree) \/ op'.name = "spans")) =>
          /\ result'.res = "panic"
          /\ tree' = tree]_vars

\* C16, where it fails: a leaf that is no root has taken an item of the
\* wrong length and returned Ok.
C16_AcceptedWitness ==
    /\ op.name = "insert_by_coordinates"
    /\ Len(op.data) # dim
    /\ result.res = "Ok"
    /\ ~is_root(tree)
    /\ \E i \in 1..Len(Items(tree)) : Items(tree)[i] = op.data

\* C17: in the runtime variant new() with coordinates and span of different
\* lengths panics and builds no node, and with equal lengths builds one; every
\* node of the tree, children of divide() included, and every node
\* adjacent_trees() returns has coordinates and span as long as those of the
\* node it was derived from.
C17_LengthsAgree ==
    /\ op.name = "new" =>
          IF Len(op.data.coordinates) # Len(op.data.span)
          THEN result.res = "panic" /\ dyn = None
          ELSE /\ result.res = "Ok"
               /\ dyn = Some(new(op.data.coordinates, op.data.span, op.data.level))
    /\ dyn # None =>
          /\ \A path \in Paths(dyn[1]) :
                /\ Len(NodeAt(dyn[1], path).coordinates) = Len(dyn[1].coordinates)
                /\ Len(NodeAt(dyn[1], path).span) = Len(dyn[1].coordinates)
          /\ op.name = "adjacent_trees" =>
                /\ result.res = "Ok"
                /\ \A k \in 1..Len(result.found) :
                      /\ Len(result.found[k].coordinates)
                            = Len(NodeAt(dyn[1], op.path).coordinates)
                      /\ Len(result.found[k].span)
                            = Len(NodeAt(dyn[1], op.path).span)

\* C17 witness: new() was refused for a span longer than the coordinates.
C17_Witness ==
    /\ op.name = "new"
    /\ Len(op.data.span) = Len(op.data.coordinates) + 1
    /\ result.res = "panic"
    /\ dyn = None

\* C17 witness of the second part: adjacent_trees() was called on a child of
\* a divided child in three dimensions.
C17_DerivedWitness ==
    /\ op.name = "adjacent_trees"
    /\ dim = 3
    /\ dyn # None
    /\ Len(op.path) = 2
    /\ Len(result.found) = 6

\* C18: built from the same arguments and divided at the same nodes, the
\* runtime variant and the fixed variant are the same tree: the same number
\* of children with the same coordinates, spans and levels in the same order;
\* divide() on a leaf returns true and Ok, and on a divided node false and
\* CanNotDivide with both trees unchanged.
C18_VariantsAgree ==
    [][/\ dyn' # None => dyn'[1] = tree'
       /\ op'.name = "divide" =>
             IF is_leaf(NodeAt(tree, op'.path))
             THEN /\ result'.res = "true" /\ result'.found = <<"Ok">>
                  /\ child_count(NodeAt(dyn'[1], op'.path)) = 2 ^ dim
             ELSE /\ result'.res = "false" /\ result'.found = <<"CanNotDivide">>
                  /\ dyn' = dyn /\ tree' = tree]_vars

\* C18 witness: a second divide() was refused by both variants on a node
\* whose first child is divided too, in three dimensions.
C18_Witness ==
    /\ op.name = "divide"
    /\ result.res = "false"
    /\ result.found = <<"CanNotDivide">>
    /\ dim = 3
    /\ dyn # None
    /\ op.path = <<>>
    /\ ~is_leaf(dyn[1].children[1])
    /\ dyn[1].children[1].children[2].coordinates
          = tree.children[1].children[2].coordinates

\* The squared Euclidean distance from the centre of node to the point x.
RECURSIVE SquaredDistanceFrom(_, _, _)
SquaredDistanceFrom(node, x, i) ==
    IF i > Len(x) THEN 0
    ELSE (node.coordinates[i] - x[i]) * (node.coordinates[i] - x[i])
             + SquaredDistanceFrom(node, x, i + 1)

SquaredDistance(node, x) == SquaredDistanceFrom(node, x, 1)

Leaves(t) == {node \in Nodes(t) : is_leaf(node)}

RECURSIVE NearestAmongSiblings(_, _, _)
NearestAmongSiblings(t, path, x) ==
    path = <<>>
    \/ /\ \A k \in 1..child_count(t) :
             SquaredDistance(t.children[k], x)
                 >= SquaredDistance(t.children[Head(path)], x)
       /\ NearestAmongSiblings(t.children[Head(path)], Tail(path), x)

RECURSIVE DeepestLevel(_)
DeepestLevel(t) ==
    LET RECURSIVE Max(_)
        Max(k) == IF k = 0 THEN t.level
                  ELSE LET below == DeepestLevel(t.children[k])
                           rest  == Max(k - 1)
                       IN  IF below > rest THEN below ELSE rest
    IN  Max(Len(t.children))

Inserted(p) == IF p \in BagToSet(inserted) THEN CopiesIn(p, inserted) ELSE 0

\* C21: on a root the payloads of all nodes together hold every item as
\* often as its insert returned Ok and nothing else: no division or
\* redistribution loses or duplicates an item, and an insert that fails adds
\* nothing.
C21_ItemsConserved ==
    is_root(tree) =>
        /\ ItemCount(tree) = BagCardinality(inserted)
        /\ \A p \in Points(dim) : CountIn(tree, p) = Inserted(p)

\* C21 witness: the same item was inserted twice, the second insert divided
\* the leaf that held the first and both were redistributed.
C21_Witness ==
    /\ op.name = "insert_by_coordinates"
    /\ result.res = "Ok"
    /\ is_root(tree)
    /\ ~user_divided
    /\ ~is_leaf(tree)
    /\ ItemCount(tree) = 2
    /\ \E p \in BagToSet(inserted) : CopiesIn(p, inserted) = 2

\* C22: in a root changed by inserts alone every item is in the payload of
\* a leaf, and the closed region of that leaf and of each of its ancestors
\* holds the item.
C22_ItemsInSpanningLeaves ==
    InsertsOnly =>
        \A path \in Paths(tree) :
            LET node == NodeAt(tree, path)
            IN  Items(node) # <<>> =>
                    /\ is_leaf(node)
                    /\ \A i \in 1..Len(Items(node)), n \in 0..Len(path) :
                          InClosedRegion(NodeAt(tree, SubSeq(path, 1, n)),
                                         Items(node)[i])

\* C22 witness: inserts alone have divided the root and a child of it, and
\* two items lie in leaves two levels below the root.
C22_Witness ==
    /\ InsertsOnly
    /\ op.name = "insert_by_coordinates"
    /\ result.res = "Ok"
    /\ ItemCount(tree) = 2
    /\ \E path \in Paths(tree) :
          /\ Len(path) = 2
          /\ Items(NodeAt(tree, path)) # <<>>
          /\ \E k \in 1..child_count(tree) :
                k # Head(path) /\ spans(tree.children[k], Items(NodeAt(tree, path))[1])

\* Points to try a node with: on every axis just outside the region, on its
\* two faces, and at the centre, where the children meet.
ProbePoints(node) ==
    {[i \in 1..dim |-> node.coordinates[i] + side[i] * node.span[i]] :
        side \in [1..dim -> {-1, 0, 1}]}
    \cup {[i \in 1..dim |-> node.coordinates[i] + side[i] * (node.span[i] + 1)] :
        side \in [1..dim -> {-1, 0, 1}]}

\* A point is spanned by a child of a divided node exactly when the node
\* spans it.
ChildrenCoverParent ==
    \A node \in InternalNodes :
        \A p \in ProbePoints(node) \cup Points(dim) :
            (\E k \in 1..child_count(node) : spans(node.children[k], p))
                <=> spans(node, p)

SameGeometry(t, u, path) ==
    /\ NodeAt(u, path).coordinates = NodeAt(t, path).coordinates
    /\ NodeAt(u, path).span = NodeAt(t, path).span
    /\ NodeAt(u, path).level = NodeAt(t, path).level

\* C24: an insert on a root that returns Ok changes only the leaf at the end
\* of the first-spanning-child descent for the item and what it creates below
\* that leaf: every node keeps its centre, span and level, a node off the
\* descent keeps its children and payload too, a divided node on the descent
\* keeps its payload and its children, and every new node is below the leaf.
C24_InsertFrame ==
    [][(op'.name = "insert_by_coordinates" /\ is_root(tree)
          /\ result'.res = "Ok") =>
         LET reach == InsertReach(tree, op'.data)
         IN  /\ reach.leaf
             /\ \A path \in Paths(tree) :
                   /\ path \in Paths(tree')
                   /\ SameGeometry(tree, tree', path)
                   /\ IsAncestor(path, reach.path) =>
                         /\ NodeAt(tree', path).data = NodeAt(tree, path).data
                         /\ child_count(NodeAt(tree', path))
                                = child_count(NodeAt(tree, path))
                   /\ (path # reach.path /\ ~IsAncestor(path, reach.path)) =>
                         NodeAt(tree', path) = NodeAt(tree, path)
             /\ \A path \in Paths(tree') \ Paths(tree) :
                   IsAncestor(reach.path, path)]_vars

\* C24 witness: an insert has gone through a root that the caller divided
\* and has divided one of its children, whose siblings were passed over.
C24_Witness ==
    /\ op.name = "insert_by_coordinates"
    /\ result.res = "Ok"
    /\ is_root(tree)
    /\ user_divided
    /\ ~is_leaf(tree)
    /\ ItemCount(tree) = 1
    /\ \E k \in 1..child_count(tree) :
          /\ ~is_leaf(tree.children[k])
          /\ spans(tree.children[k], op.data)
          /\ \E j \in 1..child_count(tree) :
                j # k /\ is_leaf(tree.children[j])

====
